---- MODULE Spec2Model ----
(***************************************************************************)
(* Model of jfit.py: the group compose generation (_get_container_tags,    *)
(* _create_compose_file, parse) and the lifecycle commands (start, stop,   *)
(* restart, remove, cli, logs) that drive the container engine.            *)
(*                                                                         *)
(* Strings that the code splits, trims, formats or compares are sequences  *)
(* of tokens (a token is an indivisible run of characters), so that        *)
(* str.split, str.strip, str.format and ' -f '.join are computed as the    *)
(* code computes them.                                                     *)
(***************************************************************************)
EXTENDS Integers, Sequences, FiniteSets, TLC

\* Largest number of keys in one source.env manifest.
MaxKeys == 2

\* ------------------------------------------------------------------------
\* Program constants
\* ------------------------------------------------------------------------
SERVICE_KEYS ==
  {"JTI_NATIVE_COLLECTOR", "JTI_OC_COLLECTOR", "RULE_ENGINE",
   "TRAINING_ENGINE", "COMMAND_RPC", "DATABASE"}

\* Group directories the helper container may create under GROUP_DIR.
Groups == {"g1", "g2"}

\* Keys a manifest may hold: two role keys and one group-wide parameter.
ManifestKeys == {"RULE_ENGINE", "TRAINING_ENGINE", "DEVICE_GROUP"}

\* Implementation names a manifest may give to a key.
Impls == {"re", "db", "te", "gone", "corrupt", "bad", "nokey", "null",
          "nocolon", "emptyver", "nt", "et", "br"}

\* Exit codes of an external process.
ExitCodes == {0, 1, 2}

\* Values of args.service: NoService is an absent (or empty) --service.
NoService == "<none>"
ServiceArgs == {NoService, "jfit_re"}

WS == " "
None == <<"<None>">>

\* A group directory's source.env as read by _create_compose_file: absent,
\* or the parsed entries in the dict's iteration order.
NoManifest == [exists |-> FALSE, entries |-> <<>>]
ManifestFile(entries) == [exists |-> TRUE, entries |-> entries]

\* ------------------------------------------------------------------------
\* String helpers (token sequences)
\* ------------------------------------------------------------------------
RECURSIVE SplitAcc(_, _, _, _)
SplitAcc(s, sep, cur, acc) ==
  IF s = <<>> THEN Append(acc, cur)
  ELSE IF Head(s) = sep THEN SplitAcc(Tail(s), sep, <<>>, Append(acc, cur))
  ELSE SplitAcc(Tail(s), sep, Append(cur, Head(s)), acc)

\* str.split(sep)
Split(s, sep) == SplitAcc(s, sep, <<>>, <<>>)

RECURSIVE LStrip(_)
LStrip(s) == IF s # <<>> /\ Head(s) = WS THEN LStrip(Tail(s)) ELSE s

RECURSIVE RStrip(_)
RStrip(s) ==
  IF s # <<>> /\ s[Len(s)] = WS THEN RStrip(SubSeq(s, 1, Len(s) - 1)) ELSE s

\* str.strip()
Strip(s) == RStrip(LStrip(s))

\* ------------------------------------------------------------------------
\* Files outside the group directories
\* ------------------------------------------------------------------------
\* os.path.join(DOCKER_IMAGE_DIR, 'jfit_<impl>.tar.gz')
ArchivePath(impl) == <<"jfit_", impl, ".tar.gz">>

\* An archive: can tar extract manifest.json from it, what json.load makes of
\* the extracted file, and the value of [0]['RepoTags'][0] when it is there.
Arch(untar, json, tag) == [untar |-> untar, json |-> json, tag |-> tag]

ArchiveOf(impl) ==
  CASE impl = "re"       -> Arch(TRUE, "ok", <<"jfit_re", ":", "1.2">>)
    [] impl = "db"       -> Arch(TRUE, "ok", <<"jfit_db", ":", WS, "3.0">>)
    [] impl = "te"       -> Arch(TRUE, "ok", <<"jfit_te", ":", "1.0">>)
    [] impl = "corrupt"  -> Arch(FALSE, "ok", <<>>)
    [] impl = "bad"      -> Arch(TRUE, "unparsable", <<>>)
    [] impl = "nokey"    -> Arch(TRUE, "nokey", <<>>)
    [] impl = "null"     -> Arch(TRUE, "ok", None)
    [] impl = "nocolon"  -> Arch(TRUE, "ok", <<"jfit_re">>)
    [] impl = "emptyver" -> Arch(TRUE, "ok", <<"jfit_re", ":", WS>>)
    [] impl = "nt"       -> Arch(TRUE, "ok", <<"jfit_nt", ":", "1.0">>)
    [] impl = "et"       -> Arch(TRUE, "ok", <<"jfit_et", ":", "1.0">>)
    [] impl = "br"       -> Arch(TRUE, "ok", <<"jfit_br", ":", "1.0">>)
    [] impl = "core"     -> Arch(TRUE, "ok", <<"jfit_core", ":", "1.0">>)

\* The archives of DOCKER_IMAGE_DIR; jfit_gone.tar.gz is not among them.
ArchivedImpls == (Impls \ {"gone"}) \cup {"core"}

DockerImages(core) ==
  [p \in {ArchivePath(i) : i \in ArchivedImpls} |->
     IF p = ArchivePath("core") THEN core
     ELSE ArchiveOf(CHOOSE i \in ArchivedImpls : ArchivePath(i) = p)]

\* The states jfit_core.tar.gz may be in.
CoreArchives ==
  {ArchiveOf("core"), ArchiveOf("bad"), ArchiveOf("corrupt")}

\* The templates of COMPOSE_SNIPPET_DIR: file name |-> content.
ComposeSnippets ==
  (<<"jfit_re", ".yaml.j2">> :> "text") @@
  (<<"jfit_db", ".yaml.j2">> :> "text") @@
  (<<"jfit_te", ".yaml.j2">> :> "text") @@
  (<<"jfit_te", "_training.yaml.j2">> :> "text") @@
  (<<"jfit_et", ".yaml.j2">> :> "") @@
  (<<"jfit_br", ".yaml.j2">> :> "{% syntax error")

\* ------------------------------------------------------------------------
\* _get_container_tags
\* ------------------------------------------------------------------------
\* Result of a call: how it ended, the value returned, and whether
\* manifest.json is left in FILE_DIR_PATH (mf: whether it was there before).
GetContainerTags(archive, mf) ==
  IF ~archive.untar
    THEN [outcome |-> "raise", tags |-> None, manifestFile |-> mf]
  ELSE IF archive.json # "ok"
    THEN [outcome |-> "raise", tags |-> None, manifestFile |-> TRUE]
  ELSE [outcome |-> "return", tags |-> archive.tag, manifestFile |-> FALSE]

\* ------------------------------------------------------------------------
\* _create_compose_file
\* ------------------------------------------------------------------------
\* env_dict as the loop iterates it: the manifest's entries in the dict's
\* iteration order, with the two injected path keys.
Entry(k, v) == [key |-> k, val |-> v]

EnvDict(manifest) ==
  manifest \o <<Entry("JFIT_ETC_PATH", "etc"), Entry("JFIT_OUTPUT_PATH", "out")>>

IsServiceKey(service_type) == service_type \in SERVICE_KEYS

\* jinja_template for a resolved service name
JinjaTemplate(service) ==
  IF service = <<"TRAINING_ENGINE">>
    THEN service \o <<"_training.yaml.j2">>
    ELSE service \o <<".yaml.j2">>

\* RenderedCompose naming the document with another extension.
RenderedComposeYml(service) == service \o <<".yml">>

\* rendered_compose_location, relative to dir_path
RenderedCompose(service) == service \o <<".yaml">>

\* Renders with a render that never fails.
RendersAlways(template) == TRUE

\* jinja2.Template(template).render(env=data): does it complete?
Renders(template) == template # "{% syntax error"

NoStep ==
  [key |-> "", role |-> FALSE, lookup |-> FALSE, resolved |-> FALSE,
   tags |-> None, service |-> <<>>, version |-> <<>>, template |-> <<>>,
   wrote |-> <<>>, fail |-> ""]

\* One iteration of the loop over env_dict.  end is "continue" (also after
\* a completed iteration), "break" or "raise"; step records what was done.
RoleIteration(e, imgs, mf) ==
  LET base == [NoStep EXCEPT !.key = e.key] IN
  IF ~IsServiceKey(e.key)
    THEN [end |-> "continue", mf |-> mf, step |-> base]
  ELSE
  LET looked == [base EXCEPT !.role = TRUE, !.lookup = TRUE]
      service_image_path == ArchivePath(e.val) IN
  IF service_image_path \notin DOMAIN imgs
    THEN [end |-> "break", mf |-> mf,
          step |-> [looked EXCEPT !.fail = "ImageMissing"]]
  ELSE
  LET r == GetContainerTags(imgs[service_image_path], mf) IN
  IF r.outcome = "raise"
    THEN [end |-> "raise", mf |-> r.manifestFile,
          step |-> [looked EXCEPT !.fail = "ResolverRaised"]]
  ELSE IF r.tags = None
    THEN [end |-> "break", mf |-> r.manifestFile,
          step |-> [looked EXCEPT !.fail = "TagResolutionFailed"]]
  ELSE
  LET service_tag == Split(r.tags, ":")
      tagged == [looked EXCEPT !.tags = r.tags] IN
  IF Len(service_tag) < 2
    THEN [end |-> "raise", mf |-> r.manifestFile,
          step |-> [tagged EXCEPT !.fail = "IndexError"]]
  ELSE
  LET service == Strip(service_tag[1])
      version == Strip(service_tag[2])
      jinja_template == JinjaTemplate(service)
      chosen == [tagged EXCEPT !.resolved = TRUE, !.service = service,
                               !.version = version,
                               !.template = jinja_template] IN
  IF jinja_template \notin DOMAIN ComposeSnippets
    THEN [end |-> "break", mf |-> r.manifestFile,
          step |-> [chosen EXCEPT !.fail = "TemplateMissing"]]
  ELSE IF ComposeSnippets[jinja_template] = ""
    THEN [end |-> "break", mf |-> r.manifestFile,
          step |-> [chosen EXCEPT !.fail = "TemplateEmpty"]]
  ELSE IF ~Renders(ComposeSnippets[jinja_template])
    THEN [end |-> "raise", mf |-> r.manifestFile,
          step |-> [chosen EXCEPT !.fail = "RenderRaised"]]
  ELSE [end |-> "continue", mf |-> r.manifestFile,
        step |-> [chosen EXCEPT !.wrote = RenderedCompose(service)]]

\* The loop over env_dict from entry i on.  files: the .yaml documents of
\* the group directory; steps: the iterations made so far.
RECURSIVE ComposeLoop(_, _, _, _, _, _)
ComposeLoop(env, i, imgs, mf, files, steps) ==
  IF i > Len(env)
    THEN [outcome |-> "return", ret |-> 0, manifestFile |-> mf,
          files |-> files, steps |-> steps]
  ELSE
  LET it == RoleIteration(env[i], imgs, mf)
      now == Append(steps, it.step) IN
  IF it.end = "raise"
    THEN [outcome |-> "raise", ret |-> 0, manifestFile |-> it.mf,
          files |-> files, steps |-> now]
  ELSE IF it.end = "break"
    THEN [outcome |-> "return", ret |-> 1, manifestFile |-> it.mf,
          files |-> files, steps |-> now]
  ELSE ComposeLoop(env, i + 1, imgs, it.mf,
                   IF it.step.wrote = <<>> THEN files
                   ELSE files \cup {it.step.wrote}, now)

\* _create_compose_file(dir_path): with no source.env the message is printed
\* and open() then raises.
CreateComposeFile(manifest, imgs, mf, files) ==
  IF ~manifest.exists
    THEN [outcome |-> "raise", ret |-> 0, manifestFile |-> mf,
          files |-> files, steps |-> <<>>]
    ELSE ComposeLoop(EnvDict(manifest.entries), 1, imgs, mf, files, <<>>)

\* The manifests the helper container may leave in a group directory.
Entries ==
  {Entry(k, v) : k \in ManifestKeys \cap SERVICE_KEYS, v \in Impls}
    \cup {Entry(k, "re") : k \in ManifestKeys \ SERVICE_KEYS}

ManifestEntries ==
  {m \in UNION {[1..n -> Entries] : n \in 0..MaxKeys} :
     \A i, j \in 1..Len(m) : i # j => m[i].key # m[j].key}

Manifests == {NoManifest} \cup {ManifestFile(m) : m \in ManifestEntries}

\* ------------------------------------------------------------------------
\* _get_compose_files and the engine commands
\* ------------------------------------------------------------------------
\* A command line is a sequence of words, a word a token sequence.
W(t) == <<t>>

\* shlex.split: the words of a command string; an empty piece is no word.
Shlex(pieces) == SelectSeq(pieces, LAMBDA w : w # <<>>)

RECURSIVE Join(_, _)
\* sep.join(list), as the pieces of the resulting string
Join(sep, list) ==
  IF Len(list) <= 1 THEN list
  ELSE <<Head(list), sep>> \o Join(sep, Tail(list))

\* GetComposeFiles without the leading empty element of the joined list.
GetComposeFilesNoLead(yaml_files) ==
  IF yaml_files = <<>>
    THEN [int |-> TRUE, pieces |-> <<W("1")>>]
    ELSE [int |-> FALSE, pieces |-> Join(W("-f"), yaml_files)]

\* _get_compose_files: the integer 1 when there is no .yaml file, else the
\* string ' -f a.yaml -f b.yaml'.
GetComposeFiles(yaml_files) ==
  IF yaml_files = <<>>
    THEN [int |-> TRUE, pieces |-> <<W("1")>>]
    ELSE [int |-> FALSE, pieces |-> Join(W("-f"), <<<<>>>> \o yaml_files)]

\* The words a lifecycle command puts after the -f list.
Verb(op, service) ==
  CASE op = "start" ->
         IF service # NoService THEN <<W("start"), W(service)>>
         ELSE <<W("up"), W("-d")>>
    [] op = "stop" ->
         <<W("stop")>> \o (IF service # NoService THEN <<W(service)>> ELSE <<>>)
    [] op = "restart" ->
         <<W("restart")>> \o (IF service # NoService THEN <<W(service)>> ELSE <<>>)
    [] op = "remove" ->
         <<W("rm"), W("--force"), W("--stop"), W("-v")>>
           \o (IF service # NoService THEN <<W(service)>> ELSE <<>>)
    [] op = "cli" -> <<W("exec"), W(service), W("sh")>>

\* compose_command of start, stop, restart, remove and cli
ComposeCommand(op, group_name, compose_files, service) ==
  Shlex(<<W("docker-compose"), W("-p"), W(group_name)>>
          \o compose_files.pieces \o Verb(op, service))

\* inspect_command of logs
InspectCommand(group_name, service) ==
  <<W("docker"), W("inspect"), W("--format={{.LogPath}}"),
    <<group_name, "_", service, "_1">>>>

\* EngineRet collapsing every failure to 1.
EngineRetFlat(exit) == IF exit = 0 THEN 0 ELSE 1

\* ret_code after execute()/shell_command() of a process that exited with
\* exit: exc.returncode, or the value subprocess.call returned.
EngineRet(exit) == exit

Ended(outcome, ret, launched) ==
  [outcome |-> outcome, ret |-> ret, launched |-> launched]

\* start, stop, restart, cli: isdir check, then the _get_compose_files check.
Guarded(op, group_name, isdir, yaml_files, service, exit) ==
  IF ~isdir THEN Ended("return", 1, <<>>)
  ELSE LET compose_files == GetComposeFiles(yaml_files) IN
       IF compose_files.int THEN Ended("return", 1, <<>>)
       ELSE Ended("return", EngineRet(exit),
                  <<ComposeCommand(op, group_name, compose_files, service)>>)

\* remove: os.chdir raises for a missing directory; the value of
\* _get_compose_files is formatted into the command unchecked.
Remove(group_name, isdir, yaml_files, service, exit) ==
  IF ~isdir THEN Ended("raise", 0, <<>>)
  ELSE Ended("return", EngineRet(exit),
             <<ComposeCommand("remove", group_name,
                              GetComposeFiles(yaml_files), service)>>)

\* logs: isdir check, docker inspect, then vi on the log path.
Logs(group_name, isdir, service, exit) ==
  IF ~isdir THEN Ended("return", 1, <<>>)
  ELSE IF exit # 0
    THEN Ended("return", EngineRet(exit), <<InspectCommand(group_name, service)>>)
  ELSE Ended("return", 0,
             <<InspectCommand(group_name, service), <<W("vi"), W("logpath")>>>>)

LifecycleOps == {"start", "stop", "restart", "remove", "cli", "logs"}

Lifecycle(op, group_name, isdir, yaml_files, service, exit) ==
  CASE op = "remove" -> Remove(group_name, isdir, yaml_files, service, exit)
    [] op = "logs" -> Logs(group_name, isdir, service, exit)
    [] OTHER -> Guarded(op, group_name, isdir, yaml_files, service, exit)

\* os.listdir: the orders in which a set of files may be enumerated.
Listings(S) ==
  {l \in [1..Cardinality(S) -> S] : \A i, j \in DOMAIN l : i # j => l[i] # l[j]}

\* ------------------------------------------------------------------------
\* The parsing of source.env in _create_compose_file (lines 201-211)
\* ------------------------------------------------------------------------
\* Largest number of elements of a list value, and of lines of a source.env.
MaxList == 2
MaxLines == 2

NL == "\n"

\* The elements a list may hold: a plain name and a key=value pair.  Every
\* token of a value is one character.
Elems == {<<"a">>, <<"k", "=", "a">>}

\* The keys of the lines: one with the list suffix, one that only contains
\* it, and a role key.
EnvKeys == {<<"DEVICE", "_LIST">>, <<"_LIST", "_NAME">>, <<"RULE_ENGINE">>}

RECURSIVE Join2(_)
\* ','.join(items), as one string
Join2(items) ==
  IF items = <<>> THEN <<>>
  ELSE IF Len(items) = 1 THEN Head(items)
  ELSE Head(items) \o <<",">> \o Join2(Tail(items))

\* '[' + ','.join(items) + ']'
Bracketed(items) == <<"[">> \o Join2(items) \o <<"]">>

\* The plain strings a line may give as its value.
PlainValues == {<<"r", "e">>, <<"k", "=", "a">>}

\* A line of source.env as the helper container writes it: the key, and the
\* value either as the list it stands for or as a plain string.
ListLine(key, items) ==
  [key |-> key, islist |-> TRUE, items |-> items, text |-> Bracketed(items)]
PlainLine(key, text) ==
  [key |-> key, islist |-> FALSE, items |-> <<>>, text |-> text]

EnvLines ==
  {ListLine(k, items) :
     k \in EnvKeys, items \in UNION {[1..n -> Elems] : n \in 0..MaxList}}
    \cup {PlainLine(k, t) : k \in EnvKeys, t \in PlainValues}

EnvInputs == UNION {[1..n -> EnvLines] : n \in 1..MaxLines}

RECURSIVE EnvText(_)
\* env_file_content for the given lines
EnvText(lines) ==
  IF lines = <<>> THEN <<>>
  ELSE Head(lines).key \o <<"=">> \o Head(lines).text \o <<NL>>
         \o EnvText(Tail(lines))

RECURSIVE SplitWsAcc(_, _, _)
SplitWsAcc(s, cur, acc) ==
  IF s = <<>> THEN (IF cur = <<>> THEN acc ELSE Append(acc, cur))
  ELSE IF Head(s) \in {NL, WS}
    THEN SplitWsAcc(Tail(s), <<>>, IF cur = <<>> THEN acc ELSE Append(acc, cur))
  ELSE SplitWsAcc(Tail(s), Append(cur, Head(s)), acc)

\* str.split() with no argument: the runs between whitespace
SplitWs(s) == SplitWsAcc(s, <<>>, <<>>)

\* key.endswith('_LIST')
EndsWithList(key) == key # <<>> /\ key[Len(key)] = "_LIST"

\* val[1:-1]
Slice1(val) == SubSeq(val, 2, Len(val) - 1)

StrValue(str) == [islist |-> FALSE, str |-> str, items |-> <<>>]
ListValue(items) == [islist |-> TRUE, str |-> <<>>, items |-> items]

\* The value of a key after the loop of lines 207-211.
TypedValue(key, val) ==
  IF EndsWithList(key) THEN ListValue(Split(Slice1(val), ",")) ELSE StrValue(val)

RECURSIVE DictOf(_, _)
\* The dict comprehension of lines 204-206: a later line replaces an
\* earlier one with the same key.
DictOf(lines, acc) ==
  IF lines = <<>> THEN acc
  ELSE LET parts == Split(Head(lines), "=")
           k == parts[1]
           v == parts[2] IN
       DictOf(Tail(lines),
              [x \in (DOMAIN acc) \cup {k} |-> IF x = k THEN v ELSE acc[x]])

EmptyDict == [x \in {} |-> <<>>]

NoEnv == [outcome |-> "none", dict |-> EmptyDict]

\* env_dict after lines 201-211 for a source.env with the given content;
\* a line without '=' raises at line.split('=')[1].
ParseEnvFile(env_file_content) ==
  LET lines == SplitWs(env_file_content) IN
  IF \E i \in DOMAIN lines : Len(Split(lines[i], "=")) < 2
    THEN [outcome |-> "raise", dict |-> EmptyDict]
    ELSE LET raw == DictOf(lines, EmptyDict) IN
         [outcome |-> "return",
          dict |-> [k \in DOMAIN raw |-> TypedValue(k, raw[k])]]

\* ------------------------------------------------------------------------
\* State
\* ------------------------------------------------------------------------
VARIABLES
  images,        \* DOCKER_IMAGE_DIR: archive path |-> archive
  manifestFile,  \* does FILE_DIR_PATH/manifest.json exist
  dirs,          \* the group directories under GROUP_DIR
  docs,          \* group |-> the .yaml documents in its directory
  container,     \* the parse helper container: "none", "running", "exited", "removed"
  pc,            \* where the running parse command is: "idle" when none runs
  status,        \* parse: last status read by the poll loop
  group_folders, \* parse: the group folders listed, in listing order
  called,        \* parse: the folders _create_compose_file was called on
  ret_codes,     \* parse: the values those calls returned
  asm,           \* the latest _create_compose_file call of the running command
  last,          \* the command invoked last and how it ended
  env_input,     \* the lines of the source.env whose parsing is examined
  env_dict       \* env_dict as parsed from those lines

vars == <<images, manifestFile, dirs, docs, container, pc, status,
          group_folders, called, ret_codes, asm, last, env_input, env_dict>>

NoAsm ==
  [group |-> "", manifest |-> NoManifest, before |-> {}, outcome |-> "none",
   ret |-> 0, steps |-> <<>>]

Command(op, group, service, listed, exit, outcome, ret, launched) ==
  [op |-> op, group |-> group, service |-> service, listed |-> listed,
   exit |-> exit, isdir |-> group \in dirs, outcome |-> outcome, ret |-> ret,
   launched |-> launched]

ParseEnded(outcome, ret) ==
  [op |-> "parse", group |-> "", service |-> NoService, listed |-> <<>>,
   exit |-> 0, isdir |-> FALSE, outcome |-> outcome, ret |-> ret,
   launched |-> <<>>]

\* The state before any command, apart from the source.env under examination.
Installed ==
  /\ \E core \in CoreArchives : images = DockerImages(core)
  /\ manifestFile = FALSE
  /\ dirs = {}
  /\ docs = [g \in Groups |-> {}]
  /\ container = "none"
  /\ pc = "idle"
  /\ status = ""
  /\ group_folders = <<>>
  /\ called = <<>>
  /\ ret_codes = <<>>
  /\ asm = NoAsm
  /\ last = ParseEnded("none", 0)

Init ==
  /\ Installed
  /\ env_input = <<>>
  /\ env_dict = NoEnv

\* The commands below leave the examined source.env alone.
EnvIdle == UNCHANGED <<env_input, env_dict>>

\* A new command starts with fresh process state.
FreshLocals ==
  /\ status' = ""
  /\ group_folders' = <<>>
  /\ called' = <<>>
  /\ ret_codes' = <<>>
  /\ asm' = NoAsm

\* ------------------------------------------------------------------------
\* parse
\* ------------------------------------------------------------------------
\* parse up to the launch of the helper container (lines 373-431).
ParseStart(inputOk, exit) ==
  /\ pc = "idle"
  /\ EnvIdle
  /\ FreshLocals
  /\ UNCHANGED images
  /\ IF ~inputOk
       THEN /\ last' = ParseEnded("return", 1)
            /\ UNCHANGED <<manifestFile, dirs, docs, container, pc>>
       ELSE LET r == GetContainerTags(images[ArchivePath("core")], manifestFile) IN
            /\ dirs' = {}
            /\ docs' = [g \in Groups |-> {}]
            /\ manifestFile' = r.manifestFile
            /\ IF r.outcome = "raise"
                 THEN /\ last' = ParseEnded("raise", 0)
                      /\ UNCHANGED <<container, pc>>
               ELSE IF exit # 0
                 THEN /\ last' = ParseEnded("return", EngineRet(exit))
                      /\ UNCHANGED <<container, pc>>
               ELSE /\ last' = ParseEnded("running", 0)
                    /\ container' = "running"
                    /\ pc' = "polling"

\* One iteration of the poll loop (lines 432-434).  The helper container
\* has written its group directories by the time it is seen exited.
ParsePoll(exit, reported, produced) ==
  /\ pc = "polling"
  /\ EnvIdle
  /\ status # "exited"
  /\ UNCHANGED <<images, manifestFile, docs, group_folders, called,
                 ret_codes, asm>>
  /\ IF exit # 0
       THEN /\ last' = ParseEnded("return", EngineRet(exit))
            /\ pc' = "idle"
            /\ UNCHANGED <<status, container, dirs>>
       ELSE /\ status' = reported
            /\ container' = reported
            /\ dirs' = IF reported = "exited" THEN produced ELSE dirs
            /\ UNCHANGED <<pc, last>>

\* ParseRemove without the loop condition: removal while still polling.
ParseRemoveEarly(exit, listing) ==
  /\ pc = "polling"
  /\ EnvIdle
  /\ UNCHANGED <<images, manifestFile, dirs, docs, status, called,
                 ret_codes, asm>>
  /\ IF exit # 0
       THEN /\ last' = ParseEnded("return", EngineRet(exit))
            /\ pc' = "idle"
            /\ UNCHANGED <<container, group_folders>>
       ELSE /\ container' = "removed"
            /\ IF dirs = {}
                 THEN /\ last' = ParseEnded("return", 1)
                      /\ pc' = "idle"
                      /\ UNCHANGED group_folders
                 ELSE /\ listing \in Listings(dirs)
                      /\ group_folders' = listing
                      /\ pc' = "assembling"
                      /\ UNCHANGED last

\* After the loop: docker rm -f, then the listing of the output folder
\* (lines 435-454).
ParseRemove(exit, listing) ==
  /\ pc = "polling"
  /\ EnvIdle
  /\ status = "exited"
  /\ UNCHANGED <<images, manifestFile, dirs, docs, status, called,
                 ret_codes, asm>>
  /\ IF exit # 0
       THEN /\ last' = ParseEnded("return", EngineRet(exit))
            /\ pc' = "idle"
            /\ UNCHANGED <<container, group_folders>>
       ELSE /\ container' = "removed"
            /\ IF dirs = {}
                 THEN /\ last' = ParseEnded("return", 1)
                      /\ pc' = "idle"
                      /\ UNCHANGED group_folders
                 ELSE /\ listing \in Listings(dirs)
                      /\ group_folders' = listing
                      /\ pc' = "assembling"
                      /\ UNCHANGED last

\* ret_code of parse from the list of ret_codes (lines 456-459).
Aggregate(codes) ==
  IF \E i \in DOMAIN codes : codes[i] # 0 THEN 1 ELSE 0

\* One element of the comprehension over group_folders (line 455), and the
\* aggregation after the last one.
ParseAssemble(manifest) ==
  /\ pc = "assembling"
  /\ EnvIdle
  /\ LET x == group_folders[Len(called) + 1] IN
     \E r \in {CreateComposeFile(manifest, images, manifestFile, docs[x])} :
     /\ called' = Append(called, x)
     /\ asm' = [group |-> x, manifest |-> manifest, before |-> docs[x],
                outcome |-> r.outcome, ret |-> r.ret, steps |-> r.steps]
     /\ manifestFile' = r.manifestFile
     /\ docs' = [docs EXCEPT ![x] = r.files]
     /\ IF r.outcome = "raise"
          THEN /\ last' = ParseEnded("raise", 0)
               /\ pc' = "idle"
               /\ UNCHANGED ret_codes
          ELSE /\ ret_codes' = Append(ret_codes, r.ret)
               /\ IF Len(called') = Len(group_folders)
                    THEN /\ last' = ParseEnded("return", Aggregate(ret_codes'))
                         /\ pc' = "idle"
                    ELSE UNCHANGED <<last, pc>>
  /\ UNCHANGED <<images, dirs, container, status, group_folders>>

\* ------------------------------------------------------------------------
\* start, stop, restart, remove, cli, logs
\* ------------------------------------------------------------------------
LifecycleCommand(op, group_name, service, exit, yaml_files) ==
  /\ pc = "idle"
  /\ EnvIdle
  /\ op \in {"cli", "logs"} => service # NoService
  /\ yaml_files \in Listings(docs[group_name])
  /\ FreshLocals
  /\ LET r == Lifecycle(op, group_name, group_name \in dirs, yaml_files,
                        service, exit) IN
     last' = Command(op, group_name, service, yaml_files, exit,
                     r.outcome, r.ret, r.launched)
  /\ UNCHANGED <<images, manifestFile, dirs, docs, container, pc>>

Next ==
  \/ \E inputOk \in BOOLEAN, exit \in ExitCodes : ParseStart(inputOk, exit)
  \/ \E exit \in ExitCodes, reported \in {"running", "exited"},
        produced \in SUBSET Groups : ParsePoll(exit, reported, produced)
  \/ \E exit \in ExitCodes, listing \in Listings(Groups) \cup Listings(dirs) :
        ParseRemove(exit, listing)
  \/ \E manifest \in Manifests : ParseAssemble(manifest)
  \/ \E op \in LifecycleOps, group_name \in Groups, service \in ServiceArgs,
        exit \in ExitCodes, yaml_files \in UNION {Listings(docs[g]) : g \in Groups} :
        LifecycleCommand(op, group_name, service, exit, yaml_files)

Spec == Init /\ [][Next]_vars

\* ------------------------------------------------------------------------
\* Properties
\* ------------------------------------------------------------------------
AsmCalled == asm.outcome # "none"

\* The iterations of the latest _create_compose_file call made for a role key.
RoleSteps == {i \in DOMAIN asm.steps : asm.steps[i].role}

\* The failures of a role named by the assembly contract.
RoleFailures ==
  {"ImageMissing", "ResolverRaised", "TagResolutionFailed",
   "TemplateMissing", "TemplateEmpty"}

\* C1: in one _create_compose_file run the first role that fails (missing
\* archive, tag resolution failure, missing or empty template) ends the run
\* with a non-zero return value; nothing is written for it or after it, and
\* the documents written for earlier roles are still in the directory.
C1_FirstFailureEndsRun ==
  \A k \in RoleSteps :
    asm.steps[k].fail \in RoleFailures =>
      /\ asm.outcome = "return"
      /\ asm.ret # 0
      /\ k = Len(asm.steps)
      /\ asm.steps[k].wrote = <<>>
      /\ \A i \in 1..(k - 1) :
           asm.steps[i].wrote # <<>> => asm.steps[i].wrote \in docs[asm.group]

ParseOver == last.op = "parse" /\ last.outcome \in {"return", "raise"}

\* C2: once parse has listed the group folders, it calls
\* _create_compose_file on every one of them however the others ended, and
\* returns non-zero exactly when the assembly of some group failed.
C2_EveryGroupAttempted ==
  (ParseOver /\ group_folders # <<>>) =>
    /\ called = group_folders
    /\ last.outcome = "return"
    /\ (last.ret # 0) <=> (\E i \in DOMAIN ret_codes : ret_codes[i] # 0)

\* The group of the last lifecycle command passed the registry's check.
Validated == last.isdir /\ last.listed # <<>>

\* C3: a lifecycle command on a group whose directory is missing or holds no
\* .yaml document returns non-zero and launches no process.
C3_EngineOnlyForAssembled ==
  (last.op \in LifecycleOps /\ ~Validated) =>
    /\ last.outcome = "return"
    /\ last.ret # 0
    /\ last.launched = <<>>

\* C4: no _get_container_tags call, however it ends, leaves the extracted
\* manifest.json behind.
C4_NoManifestFileRemains == manifestFile = FALSE

WellFormedTag(tags) ==
  LET parts == Split(tags, ":") IN
    /\ Len(parts) = 2
    /\ Strip(parts[1]) # <<>>
    /\ Strip(parts[2]) # <<>>

\* C5: a resolved role has a non-empty name and a non-empty version, and a
\* tag that is not exactly one name:version pair with both parts non-empty
\* ends the run with a non-zero return value and no document for that role.
C5_ResolvedTagWellFormed ==
  \A k \in RoleSteps :
    LET st == asm.steps[k] IN
      /\ st.resolved => (st.service # <<>> /\ st.version # <<>>)
      /\ (st.tags # None /\ ~WellFormedTag(st.tags)) =>
           /\ asm.outcome = "return"
           /\ asm.ret # 0
           /\ st.wrote = <<>>

\* C6: _create_compose_file on a directory without source.env returns a
\* non-zero value and writes no document.
C6_ManifestMissingReturnsNonZero ==
  (AsmCalled /\ ~asm.manifest.exists) =>
    /\ asm.outcome = "return"
    /\ asm.ret # 0
    /\ docs[asm.group] = asm.before

RECURSIVE FArgs(_)
\* The words of a command that follow a -f word.
FArgs(cmd) ==
  IF Len(cmd) < 2 THEN <<>>
  ELSE IF Head(cmd) = W("-f") THEN <<cmd[2]>> \o FArgs(Tail(Tail(cmd)))
  ELSE FArgs(Tail(cmd))

\* What the claim has each operation put after the documents.
ScopeWords(op, service) ==
  LET verb == CASE op = "start" ->
                     IF service = NoService THEN <<W("up"), W("-d")>>
                     ELSE <<W("start")>>
                [] op = "stop" -> <<W("stop")>>
                [] op = "restart" -> <<W("restart")>>
                [] op = "remove" -> <<W("rm"), W("--force"), W("--stop"), W("-v")>>
  IN verb \o (IF service = NoService THEN <<>> ELSE <<W(service)>>)

\* C7: start, stop, restart and remove on a validated group launch exactly
\* one docker-compose command, project-named by the group, with one -f per
\* document in the enumerated order, followed by the whole-group verb or by
\* the role verb and that one service name.
C7_SingleInvocationShape ==
  (last.op \in {"start", "stop", "restart", "remove"} /\ Validated) =>
    /\ Len(last.launched) = 1
    /\ LET cmd == last.launched[1]
           n == Len(last.listed) IN
         /\ Len(cmd) >= 3 + 2 * n
         /\ SubSeq(cmd, 1, 3) = <<W("docker-compose"), W("-p"), W(last.group)>>
         /\ \A i \in 1..n : /\ cmd[2 + 2 * i] = W("-f")
                            /\ cmd[3 + 2 * i] = last.listed[i]
         /\ FArgs(cmd) = last.listed
         /\ {last.listed[i] : i \in 1..n} = docs[last.group]
         /\ n = Cardinality(docs[last.group])
         /\ SubSeq(cmd, 4 + 2 * n, Len(cmd)) = ScopeWords(last.op, last.service)

\* C7 witness: a role-scoped start on a group with two documents.
C7_Witness ==
  /\ last.op = "start"
  /\ last.service # NoService
  /\ Validated
  /\ Len(last.listed) = 2
  /\ Len(last.launched) = 1

\* C8: start, stop, restart, remove and cli on a validated group return the
\* exit code of the one process they launch, 0 exactly when it exited 0.
C8_ExitCodeUnchanged ==
  (last.op \in {"start", "stop", "restart", "remove", "cli"} /\ Validated) =>
    /\ last.outcome = "return"
    /\ Len(last.launched) = 1
    /\ last.ret = last.exit
    /\ (last.ret = 0) <=> (last.exit = 0)

\* C8 witness: a cli whose docker-compose process exited with 2.
C8_Witness ==
  /\ last.op = "cli"
  /\ Validated
  /\ last.exit = 2
  /\ last.ret = 2
  /\ Len(last.launched) = 1

\* C9: the template of the role key TRAINING_ENGINE is the specialized
\* '<name>_training.yaml.j2', that of every other role '<name>.yaml.j2'.
C9_TrainingTemplate ==
  \A k \in RoleSteps :
    LET st == asm.steps[k] IN
      st.resolved =>
        st.template = IF st.key = "TRAINING_ENGINE"
                        THEN st.service \o <<"_training.yaml.j2">>
                        ELSE st.service \o <<".yaml.j2">>

\* A run of _create_compose_file in which every present role was rendered.
AllRendered ==
  /\ AsmCalled
  /\ asm.manifest.exists
  /\ asm.outcome = "return"
  /\ asm.ret = 0

\* The role keys of the manifest of the latest run.
PresentRoles ==
  {i \in DOMAIN asm.manifest.entries :
     asm.manifest.entries[i].key \in SERVICE_KEYS}

WrittenDocs == {asm.steps[i].wrote : i \in RoleSteps}

\* C10 as stated: a fully rendered run leaves as many documents as there
\* are present roles, each named '<resolved-name>.yaml', and a key outside
\* the role enumeration causes no image lookup and no document.
C10_OneDocumentPerRole ==
  AllRendered =>
    /\ Cardinality(WrittenDocs) = Cardinality(PresentRoles)
    /\ \A i \in DOMAIN asm.steps :
         LET st == asm.steps[i] IN
           IF st.key \in SERVICE_KEYS
             THEN st.wrote = st.service \o <<".yaml">>
             ELSE ~st.lookup /\ st.wrote = <<>>

\* C10 amended: a fully rendered run writes once per present role, to
\* '<resolved-name>.yaml'; the documents written are as many as the distinct
\* resolved names, and a key outside the role enumeration causes no image
\* lookup and no document.
C10_OneWritePerRole ==
  AllRendered =>
    /\ Cardinality(RoleSteps) = Cardinality(PresentRoles)
    /\ Cardinality(WrittenDocs) =
         Cardinality({asm.steps[i].service : i \in RoleSteps})
    /\ docs[asm.group] = asm.before \cup WrittenDocs
    /\ \A i \in DOMAIN asm.steps :
         LET st == asm.steps[i] IN
           IF st.key \in SERVICE_KEYS
             THEN /\ st.lookup
                  /\ st.wrote = st.service \o <<".yaml">>
                  /\ st.wrote \in docs[asm.group]
             ELSE ~st.lookup /\ st.wrote = <<>>

\* C10 witness: a fully rendered run with two roles and two documents.
C10_Witness ==
  /\ AllRendered
  /\ Cardinality(PresentRoles) = 2
  /\ Cardinality(WrittenDocs) = 2
  /\ \E i \in DOMAIN asm.steps : ~asm.steps[i].role

\* ------------------------------------------------------------------------
\* The parsing of source.env on its own
\* ------------------------------------------------------------------------
InitEnv ==
  /\ Installed
  /\ env_input \in EnvInputs
  /\ env_dict = NoEnv

\* Lines 201-211 of _create_compose_file on the examined source.env.
ReadEnv ==
  /\ env_dict.outcome = "none"
  /\ env_input # <<>>
  /\ env_dict' = ParseEnvFile(EnvText(env_input))
  /\ UNCHANGED <<images, manifestFile, dirs, docs, container, pc, status,
                 group_folders, called, ret_codes, asm, last, env_input>>

NextEnv == ReadEnv

SpecEnv == InitEnv /\ [][NextEnv]_vars

\* The line that gives a key its value: the last one with that key.
Decides(i) ==
  \A j \in DOMAIN env_input : j > i => env_input[j].key # env_input[i].key

\* C11: a key ending in _LIST whose value is the bracketed list '[a,b,c]'
\* is parsed to the sequence of its elements, and a key without the suffix
\* keeps its value as the original string.
C11_ListParsing ==
  env_dict.outcome # "none" =>
    /\ env_dict.outcome = "return"
    /\ \A i \in DOMAIN env_input :
         LET l == env_input[i] IN
           Decides(i) =>
             IF l.key[Len(l.key)] = "_LIST"
               THEN l.islist => env_dict.dict[l.key] = ListValue(l.items)
               ELSE env_dict.dict[l.key] = StrValue(l.text)

\* ------------------------------------------------------------------------
\* The poll loop of parse under fair scheduling
\* ------------------------------------------------------------------------
\* A status query that succeeds and reports the container exited.
PollSeesExited == \E produced \in SUBSET Groups : ParsePoll(0, "exited", produced)

\* The step after the loop, whatever docker rm returns.
RemoveStep ==
  \E exit \in ExitCodes, listing \in Listings(Groups) \cup Listings(dirs) :
    ParseRemove(exit, listing)

\* parse keeps running, and the container is eventually seen exited.
SpecFair ==
  /\ Init
  /\ [][Next]_vars
  /\ WF_vars(PollSeesExited)
  /\ WF_vars(RemoveStep)

\* The container is removed only by a step that leaves the poll loop after
\* the status 'exited' was read.
RemovalAfterExited ==
  (container' = "removed" /\ container # "removed") =>
    (pc = "polling" /\ status = "exited" /\ pc' # "polling")

\* Assembly starts only with the removal, and the container stays removed
\* while the groups are assembled.
AssembleAfterRemoval ==
  /\ (pc' = "assembling" /\ pc # "assembling") =>
       (container # "removed" /\ container' = "removed")
  /\ pc = "assembling" => (container = "removed" /\ container' = "removed")

\* The loop is left either by a failed status query or, with 'exited' read,
\* by the one removal step.
LoopLeftByRemoval ==
  (pc = "polling" /\ pc' # "polling") =>
    \/ status = "exited"
    \/ (last'.outcome = "return" /\ last'.ret # 0)

\* C12: parse removes the helper container only after it read the status
\* 'exited', starts assembling only after that removal, and, when the
\* container is eventually reported exited, leaves the poll loop, issuing
\* the removal once.
C12_PollThenRemove ==
  /\ [][RemovalAfterExited]_vars
  /\ [][AssembleAfterRemoval]_vars
  /\ [][LoopLeftByRemoval]_vars
  /\ (pc = "polling") ~> (pc # "polling")

\* C12 witness: the container was seen exited and removed, assembly begins.
C12_Witness ==
  /\ pc = "assembling"
  /\ status = "exited"
  /\ container = "removed"
  /\ called = <<>>

\* The documents the iterations before k wrote.
WrittenBefore(k) ==
  {asm.steps[j].wrote : j \in {j \in 1..(k - 1) : asm.steps[j].wrote # <<>>}}

\* C13: a role's document is written only after its archive was found, its
\* tag resolved, its template found non-empty and the render completed; a
\* role that fails at any of these steps leaves no document of its own.
C13_WriteAfterRender ==
  \A k \in DOMAIN asm.steps :
    LET st == asm.steps[k] IN
      /\ st.wrote # <<>> =>
           /\ st.fail = ""
           /\ st.lookup
           /\ ArchivePath(asm.manifest.entries[k].val) \in DOMAIN images
           /\ st.resolved
           /\ st.template \in DOMAIN ComposeSnippets
           /\ ComposeSnippets[st.template] \notin {"", "{% syntax error"}
      /\ st.fail # "" =>
           /\ st.wrote = <<>>
           /\ k = Len(asm.steps)
           /\ docs[asm.group] = asm.before \cup WrittenBefore(k)

\* C13 witness: the render of the second role raised after the first role's
\* document was written.
C13_Witness ==
  /\ Len(asm.steps) = 2
  /\ asm.steps[1].wrote # <<>>
  /\ asm.steps[2].fail = "RenderRaised"
  /\ asm.steps[1].wrote \in docs[asm.group]

====
